---- MODULE Spec2Model ----
(***************************************************************************)
(* Model of api.py: the Flask facade over the blackbird binary.            *)
(*                                                                         *)
(* Strings are sequences of one-character strings, so that the f-string    *)
(* that builds a scan_id, the '..' / '/' test of get_results and the path  *)
(* of the record file are computed character by character.                 *)
(* A request handler is one atomic action; a job runner thread is a        *)
(* sequence of steps (spawn, subprocess end + open, dump) that interleave  *)
(* with the handlers and with the other runners.                           *)
(***************************************************************************)
EXTENDS Integers, Sequences, FiniteSets, Bags, TLC

VARIABLES
    binary_present,  \* os.path.exists(BLACKBIRD_PATH)
    store,           \* the files of DATA_DIR: path (relative to DATA_DIR) -> content
    jobs,            \* the runner threads started so far: a bag of thread states
    last,            \* the response of the last step, when it handled a request
    accessed         \* the DATA_DIR paths the last step passed to exists()/open()

vars == <<binary_present, store, jobs, last, accessed>>

(* ------------------------------ bounds -------------------------------- *)

\* Number of accepted submissions (runner threads) in one behaviour.
MaxJobs == 2

(* ------------------------------ strings ------------------------------- *)

Slash == <<"/">>

DotDot == <<".", ".">>

\* Python's `sub in s` on strings.
Contains(s, sub) ==
    \E i \in 1..(Len(s) - Len(sub) + 1) : SubSeq(s, i, i + Len(sub) - 1) = sub

StrUsername == <<"u", "s", "e", "r", "n", "a", "m", "e">>

StrEmail == <<"e", "m", "a", "i", "l">>

StrResults == <<"/", "r", "e", "s", "u", "l", "t", "s", "/">>

StrJson == <<".", "j", "s", "o", "n">>

Kinds == {"username", "email"}

KindStr(kind) == IF kind = "username" THEN StrUsername ELSE StrEmail

\* The subjects a client sends in the username / email field.
Subjects == { <<>>, <<"a">>, <<".", ".">>, <<"a", "/", "a">> }

\* The values os.urandom(4).hex() takes in the model: two of the 2^32.
Suffixes == { <<"0">>, <<"f">> }

\* Fault variant of FormatScanId: both handlers use the same prefix.
FormatScanIdNoKind(kind, subject, hex) == <<"s", "c", "a", "n", "_">> \o subject \o <<"_">> \o hex

\* Fault variant of FormatScanId: the subject is left out of the identifier.
FormatScanIdNoSubject(kind, subject, hex) == KindStr(kind) \o <<"_">> \o hex

\* f"username_{username}_{os.urandom(4).hex()}" / f"email_{email}_{...}"
FormatScanId(kind, subject, hex) == KindStr(kind) \o <<"_">> \o subject \o <<"_">> \o hex

\* os.path.join(DATA_DIR, f"{scan_id}.json"), relative to DATA_DIR.  The
\* joined name starts with the kind (submission) or was checked to hold no
\* '/' (get_results), so join never discards DATA_DIR.
OutputFile(scan_id) == scan_id \o StrJson

\* f"/results/{scan_id}"
ResultsUrl(scan_id) == StrResults \o scan_id

\* A path names a file directly inside DATA_DIR iff it has no separator.
DirectlyInDataDir(path) == ~Contains(path, Slash)

\* open(path, 'w'): DATA_DIR is created empty and the program never creates
\* a directory in it, so a path with a directory component has no parent
\* directory and open() raises FileNotFoundError / NotADirectoryError.
OpenSucceeds(path) == DirectlyInDataDir(path)

(* ------------------------------- files -------------------------------- *)

\* The file right after open(path, 'w'): created or truncated, nothing dumped.
Partial == <<"partial">>

\* json.dump(record, f) / json.load(f)
JsonDump(record) == <<"json", record>>

JsonLoads(content) == content[1] = "json"

JsonLoad(content) == content[2]

Exists(path) == path \in DOMAIN store

(* ------------------------------ requests ------------------------------ *)

\* The JSON bodies a client posts: no (parsable) body, the empty object, an
\* object without the endpoint's field, an object with the field.
NoBody == [type |-> "none"]

EmptyObject == [type |-> "object", empty |-> TRUE, has |-> FALSE]

OtherField == [type |-> "object", empty |-> FALSE, has |-> FALSE]

WithField(subject) == [type |-> "object", empty |-> FALSE, has |-> TRUE, value |-> subject]

Bodies == {NoBody, EmptyObject, OtherField} \cup { WithField(s) : s \in Subjects }

\* request.get_json(): the parsed body; for a request without a JSON body it
\* returns None or raises (BadRequest / UnsupportedMediaType), depending on
\* the request's content type and the Flask version.
GetJsonOutcomes(body) == IF body.type = "none" THEN {"None", "raise"} ELSE {"dict"}

\* `not data or '<field>' not in data`
FieldMissing(body) == body.type = "none" \/ body.empty \/ ~body.has

RequiredMessage(kind) == IF kind = "username" THEN "Username is required" ELSE "Email is required"

\* `last` after a step that handled no request.
NoResponse == [op |-> "none"]

(* ------------------------------- runner ------------------------------- *)

ReturnCodes == {0, 1}

\* How subprocess.run(cmd, capture_output=True, text=True, timeout=300) ends:
\* the process exits with a return code, TimeoutExpired is raised, or
\* another exception is raised (binary removed since the handler's check,
\* spawn error).
RunOutcomes ==
    {[type |-> "timeout"], [type |-> "raise"]}
        \cup { [type |-> "exit", rc |-> rc] : rc \in ReturnCodes }

NotRun == [type |-> "none"]

NoRecord == [status |-> "none"]

KindFlag(kind) == IF kind = "username" THEN <<"-", "u">> ELSE <<"-", "e">>

\* " ".join([BLACKBIRD_PATH, "-u" | "-e", subject, "--no-color"])
Command(kind, subject) ==
    <<"blackbird", " ">> \o KindFlag(kind) \o <<" ">> \o subject \o <<" ", "--no-color">>

\* Fault variant of StatusOf: the conditional is inverted.
StatusOfInverted(rc) == IF rc # 0 THEN "completed" ELSE "failed"

\* "completed" if result.returncode == 0 else "failed"
StatusOf(rc) == IF rc = 0 THEN "completed" ELSE "failed"

\* scan_result of the normal path.
ScanResult(kind, subject, timestamp, rc) ==
    (kind :> subject) @@
    [ timestamp   |-> timestamp,
      command     |-> Command(kind, subject),
      return_code |-> rc,
      stdout      |-> "stdout",
      stderr      |-> "stderr",
      status      |-> StatusOf(rc) ]

\* Fault variant of TimeoutResult: the timeout is recorded as a failure.
TimeoutResultAsFailed(kind, subject) ==
    (kind :> subject) @@
    [ error |-> "Scan timed out after 5 minutes", status |-> "failed" ]

\* error_result of `except subprocess.TimeoutExpired`.
TimeoutResult(kind, subject) ==
    (kind :> subject) @@
    [ error |-> "Scan timed out after 5 minutes", status |-> "timeout" ]

\* error_result of `except Exception as e`.
FailedResult(kind, subject) ==
    (kind :> subject) @@ [ error |-> "str(e)", status |-> "failed" ]

\* Fault variant of NewJob: the handler joins the thread before it answers,
\* so the thread has ended when the response is produced.
NewJobJoined(kind, subject, output_file, scan_id) ==
    [ kind        |-> kind,
      subject     |-> subject,
      output_file |-> output_file,
      scan_id     |-> scan_id,
      pc          |-> "dead",
      outcome     |-> [type |-> "raise"],
      runs        |-> 1,
      pending     |-> NoRecord ]

\* threading.Thread(target=run_blackbird_<kind>_scan,
\*                  args=(subject, output_file, scan_id)).start()
NewJob(kind, subject, output_file, scan_id) ==
    [ kind        |-> kind,
      subject     |-> subject,
      output_file |-> output_file,
      scan_id     |-> scan_id,
      pc          |-> "running",
      outcome     |-> NotRun,
      runs        |-> 0,
      pending     |-> NoRecord ]

(* ------------------------------- Init --------------------------------- *)

\* After module import: DATA_DIR exists (os.makedirs) and holds no record;
\* the binary may or may not have been built; no thread runs.
Init ==
    /\ binary_present \in BOOLEAN
    /\ store = << >>
    /\ jobs = EmptyBag
    /\ last = NoResponse
    /\ accessed = {}

(* --------------------------- scan handlers ---------------------------- *)

\* scan_username / scan_email: the two handlers differ in the field name,
\* the scan_id prefix and the runner they start.
Scan(kind, body, parsed, hex) ==
    LET op       == IF kind = "username" THEN "scan_username" ELSE "scan_email"
        request  == [op |-> op]
    IN
    /\ parsed \in GetJsonOutcomes(body)
    /\ accessed' = {}
    /\ UNCHANGED <<binary_present, store>>
    /\ IF parsed = "raise"
       THEN \* except Exception as e: return jsonify({"error": str(e)}), 500
            /\ last' = request @@ [code |-> 500, error |-> "str(e)"]
            /\ UNCHANGED jobs
       ELSE IF FieldMissing(body)
       THEN /\ last' = request @@ [code |-> 400, error |-> RequiredMessage(kind)]
            /\ UNCHANGED jobs
       ELSE LET subject     == body.value
                scan_id     == FormatScanId(kind, subject, hex)
                output_file == OutputFile(scan_id)
            IN  IF ~binary_present
                THEN /\ last' = request @@ [code |-> 500, error |-> "Blackbird not built"]
                     /\ UNCHANGED jobs
                ELSE /\ BagCardinality(jobs) < MaxJobs
                     /\ jobs' = jobs (+) SetToBag({NewJob(kind, subject, output_file, scan_id)})
                     /\ last' = request @@
                                [ code        |-> 202,
                                  message     |-> "Scan started",
                                  scan_id     |-> scan_id,
                                  subject     |-> subject,
                                  results_url |-> ResultsUrl(scan_id) ]

scan_username ==
    \E body \in Bodies, parsed \in {"None", "raise", "dict"}, hex \in Suffixes :
        Scan("username", body, parsed, hex)

scan_email ==
    \E body \in Bodies, parsed \in {"None", "raise", "dict"}, hex \in Suffixes :
        Scan("email", body, parsed, hex)

(* ----------------------------- get_results ---------------------------- *)

\* Identifiers a client may poll besides the ones it was issued.
ForeignIds == { <<"x">>, <<".", ".">>, <<"x", "/", "x">> }

PollIds == ForeignIds \cup { job.scan_id : job \in BagToSet(jobs) }

\* Fault variant of InvalidScanId: the test forgets the '..' sequence.
InvalidScanIdSlashOnly(scan_id) == Contains(scan_id, Slash)

\* `'..' in scan_id or '/' in scan_id`
InvalidScanId(scan_id) == Contains(scan_id, DotDot) \/ Contains(scan_id, Slash)

\* Fault variant of GetResults: a missing record file is reported as an
\* error instead of 'processing'.
GetResultsNotFound(scan_id, files) ==
    LET result_file == OutputFile(scan_id) IN
    IF InvalidScanId(scan_id)
    THEN [code |-> 400, error |-> "Invalid scan ID"]
    ELSE IF result_file \notin DOMAIN files
    THEN [code |-> 404, error |-> "Scan not found"]
    ELSE IF JsonLoads(files[result_file])
    THEN [code |-> 200, status |-> "completed", scan_id |-> scan_id,
          results |-> JsonLoad(files[result_file])]
    ELSE [code |-> 500, error |-> "str(e)"]

\* The response of get_results(scan_id) over the files `files`.
GetResults(scan_id, files) ==
    LET result_file == OutputFile(scan_id) IN
    IF InvalidScanId(scan_id)
    THEN [code |-> 400, error |-> "Invalid scan ID"]
    ELSE IF result_file \notin DOMAIN files
    THEN [code |-> 202, status |-> "processing",
          message |-> "Scan still in progress", scan_id |-> scan_id]
    ELSE IF JsonLoads(files[result_file])
    THEN [code |-> 200, status |-> "completed", scan_id |-> scan_id,
          results |-> JsonLoad(files[result_file])]
    ELSE \* json.load raises; except Exception as e
         [code |-> 500, error |-> "str(e)"]

get_results(scan_id) ==
    /\ last' = [op |-> "get_results", scan_id |-> scan_id] @@ GetResults(scan_id, store)
    /\ accessed' = IF InvalidScanId(scan_id) THEN {} ELSE {OutputFile(scan_id)}
    /\ UNCHANGED <<binary_present, store, jobs>>

(* ---------------------------- runner steps ---------------------------- *)

\* The threads after one of them, in state `job`, moved to state `new`.
Replace(job, new) == (jobs (-) SetToBag({job})) (+) SetToBag({new})

\* Fault variant of RunnerOpen: the record is complete in the file as soon
\* as the file is opened, before the runner has finished its write.
RunnerOpenWritesRecord(job, outcome, attempts) ==
    LET path == job.output_file
        ok   == { k \in DOMAIN attempts : OpenSucceeds(path) }
    IN
    /\ accessed' = {path}
    /\ IF ok # {}
       THEN LET k == CHOOSE m \in ok : \A n \in ok : m <= n IN
            /\ store' = (path :> JsonDump(attempts[k])) @@ store
            /\ jobs' = Replace(job, [job EXCEPT !.pc = "writing",
                                                 !.outcome = outcome,
                                                 !.runs = @ + 1,
                                                 !.pending = attempts[k]])
       ELSE /\ store' = store
            /\ jobs' = Replace(job, [job EXCEPT !.pc = "dead", !.outcome = outcome,
                                                  !.runs = @ + 1])

\* The runner's `with open(output_file, 'w')` blocks, in the order the code
\* reaches them: `attempts` are the records of the try block and of the
\* handler that catches its exception.  The first open() that succeeds
\* truncates the file and its record is dumped by the next step; when no
\* open() succeeds the exception leaves the thread function.
RunnerOpen(job, outcome, attempts) ==
    LET path == job.output_file
        ok   == { k \in DOMAIN attempts : OpenSucceeds(path) }
    IN
    /\ accessed' = {path}
    /\ IF ok # {}
       THEN LET k == CHOOSE m \in ok : \A n \in ok : m <= n IN
            /\ store' = (path :> Partial) @@ store
            /\ jobs' = Replace(job, [job EXCEPT !.pc = "writing",
                                                 !.outcome = outcome,
                                                 !.runs = @ + 1,
                                                 !.pending = attempts[k]])
       ELSE /\ store' = store
            /\ jobs' = Replace(job, [job EXCEPT !.pc = "dead", !.outcome = outcome,
                                                  !.runs = @ + 1])

\* Fault variant of RunnerSubprocessEnds: a scan that timed out is run
\* again instead of being recorded.
RunnerSubprocessEndsRetryOnTimeout(job, outcome) ==
    /\ job.pc = "running"
    /\ UNCHANGED <<binary_present>>
    /\ last' = NoResponse
    /\ IF outcome.type = "timeout"
       THEN /\ jobs' = Replace(job, [job EXCEPT !.runs = @ + 1])
            /\ accessed' = {}
            /\ store' = store
       ELSE IF outcome.type = "raise"
       THEN RunnerOpen(job, outcome, << FailedResult(job.kind, job.subject) >>)
       ELSE LET timestamp == IF Exists(job.output_file) THEN "ctime" ELSE "unknown" IN
            RunnerOpen(job, outcome,
                       << ScanResult(job.kind, job.subject, timestamp, outcome.rc),
                          FailedResult(job.kind, job.subject) >>)

\* subprocess.run ends and the runner opens its record file: in the try
\* block after a normal return, in the handler after an exception.
RunnerSubprocessEnds(job, outcome) ==
    /\ job.pc = "running"
    /\ UNCHANGED <<binary_present>>
    /\ last' = NoResponse
    /\ IF outcome.type = "timeout"
       THEN RunnerOpen(job, outcome, << TimeoutResult(job.kind, job.subject) >>)
       ELSE IF outcome.type = "raise"
       THEN RunnerOpen(job, outcome, << FailedResult(job.kind, job.subject) >>)
       ELSE LET timestamp == IF Exists(job.output_file) THEN "ctime" ELSE "unknown" IN
            RunnerOpen(job, outcome,
                       << ScanResult(job.kind, job.subject, timestamp, outcome.rc),
                          FailedResult(job.kind, job.subject) >>)

\* Fault variant of RunnerDump: after writing its record the runner runs
\* the scan again.
RunnerDumpAndRetry(job) ==
    /\ job.pc = "writing"
    /\ store' = [store EXCEPT ![job.output_file] = JsonDump(job.pending)]
    /\ jobs' = Replace(job, [job EXCEPT !.pc = "running"])
    /\ accessed' = {job.output_file}
    /\ last' = NoResponse
    /\ UNCHANGED <<binary_present>>

\* json.dump(record, f) and the close of the `with` block.
RunnerDump(job) ==
    /\ job.pc = "writing"
    /\ store' = [store EXCEPT ![job.output_file] = JsonDump(job.pending)]
    /\ jobs' = Replace(job, [job EXCEPT !.pc = "done"])
    /\ accessed' = {job.output_file}
    /\ last' = NoResponse
    /\ UNCHANGED <<binary_present>>

run_blackbird_username_scan ==
    \E job \in BagToSet(jobs) :
        /\ job.kind = "username"
        /\ \/ \E outcome \in RunOutcomes : RunnerSubprocessEnds(job, outcome)
           \/ RunnerDump(job)

run_blackbird_email_scan ==
    \E job \in BagToSet(jobs) :
        /\ job.kind = "email"
        /\ \/ \E outcome \in RunOutcomes : RunnerSubprocessEnds(job, outcome)
           \/ RunnerDump(job)

(* ----------------------------- environment ---------------------------- *)

\* The binary is built (go build -o blackbird) or removed while the
\* service runs.
BinaryChanges ==
    /\ binary_present' = ~binary_present
    /\ accessed' = {}
    /\ last' = NoResponse
    /\ UNCHANGED <<store, jobs>>

(* ---------------------------- specification --------------------------- *)

Next ==
    \/ scan_username
    \/ scan_email
    \/ \E scan_id \in PollIds : get_results(scan_id)
    \/ run_blackbird_username_scan
    \/ run_blackbird_email_scan
    \/ BinaryChanges

Spec == Init /\ [][Next]_vars

(* ----------------------- status and get_platforms -------------------- *)

MaxOut == 3

Whitespace == {" ", "\n"}

\* What the binary can print: texts of at most MaxOut characters.
Outputs == UNION { [1..n -> {"a"} \cup Whitespace] : n \in 0..MaxOut }

RECURSIVE LStrip(_)
LStrip(s) ==
    IF s # << >> /\ Head(s) \in Whitespace THEN LStrip(Tail(s)) ELSE s

RECURSIVE RStrip(_)
RStrip(s) ==
    IF s # << >> /\ s[Len(s)] \in Whitespace
    THEN RStrip(SubSeq(s, 1, Len(s) - 1))
    ELSE s

\* str.strip()
Strip(s) == RStrip(LStrip(s))

\* str.split('\n'): the text between the newlines, [''] for the empty text.
RECURSIVE Split(_)
Split(s) ==
    LET nl == { i \in 1..Len(s) : s[i] = "\n" } IN
    IF nl = {}
    THEN << s >>
    ELSE LET i == CHOOSE m \in nl : \A n \in nl : m <= n IN
         << SubSeq(s, 1, i - 1) >> \o Split(SubSeq(s, i + 1, Len(s)))

\* How subprocess.run(..., capture_output=True, text=True, timeout=...) of
\* the --version and --list-platforms invocations ends.
CapturedOutcomes ==
    {[type |-> "timeout"], [type |-> "raise"]}
        \cup { [type |-> "exit", rc |-> rc, stdout |-> out] :
                   rc \in ReturnCodes, out \in Outputs }

\* The two placeholder texts of get_blackbird_version, each one token.
UnknownBuildRequired == << "Unknown (build required)" >>

UnknownVersion == << "Unknown" >>

\* get_blackbird_version(): `present` is os.path.exists(BLACKBIRD_PATH),
\* `outcome` the end of the --version invocation.
get_blackbird_version(present, outcome) ==
    IF ~present
    THEN UnknownBuildRequired
    ELSE IF outcome.type = "exit"
    THEN IF outcome.rc = 0 THEN Strip(outcome.stdout) ELSE UnknownBuildRequired
    ELSE \* bare except
         UnknownVersion

\* Fault variant of Status: the exit code of the help invocation is ignored.
StatusAlwaysAvailable(present, help, version) ==
    IF ~present
    THEN [ code |-> 500, status |-> "error",
           message |-> "Blackbird binary not found. Build required.",
           solution |-> "Run 'go build -o blackbird' in repository root" ]
    ELSE IF help.type # "exit"
    THEN [ code |-> 500, status |-> "error", message |-> "Status check failed" ]
    ELSE [ code |-> 200, status |-> "online",
           blackbird_available |-> TRUE,
           blackbird_version   |-> get_blackbird_version(present, version) ]

\* The response of status(): `help` and `version` are the ends of the two
\* invocations.
Status(present, help, version) ==
    IF ~present
    THEN [ code |-> 500, status |-> "error",
           message |-> "Blackbird binary not found. Build required.",
           solution |-> "Run 'go build -o blackbird' in repository root" ]
    ELSE IF help.type # "exit"
    THEN \* except Exception as e
         [ code |-> 500, status |-> "error", message |-> "Status check failed" ]
    ELSE [ code |-> 200, status |-> "online",
           blackbird_available |-> (help.rc = 0),
           blackbird_version   |-> get_blackbird_version(present, version) ]

\* GET /status.  `invoked` lists the ends of the invocations the handler
\* made, in order.
status ==
    \E help \in RunOutcomes, version \in CapturedOutcomes :
        /\ last' = [ op |-> "status",
                     invoked |-> IF ~binary_present THEN << >>
                                 ELSE IF help.type # "exit" THEN << help >>
                                 ELSE << help, version >> ]
                   @@ Status(binary_present, help, version)
        /\ accessed' = {}
        /\ UNCHANGED <<binary_present, store, jobs>>

FallbackPlatforms == << << "Unknown - compile blackbird to see list" >> >>

\* The response of get_platforms(): `listing` is the end of the
\* --list-platforms invocation.
Platforms(present, listing) ==
    IF ~present
    THEN [ code |-> 500, error |-> "Blackbird not built" ]
    ELSE IF listing.type # "exit"
    THEN \* except Exception as e
         [ code |-> 500, error |-> "str(e)" ]
    ELSE IF listing.rc = 0
    THEN LET platforms == Split(Strip(listing.stdout)) IN
         [ code |-> 200, platforms |-> platforms, count |-> Len(platforms) ]
    ELSE [ code |-> 200, platforms |-> FallbackPlatforms, count |-> 0 ]

\* GET /platforms
get_platforms ==
    \E listing \in CapturedOutcomes :
        /\ last' = [ op |-> "get_platforms",
                     invoked |-> IF binary_present THEN << listing >> ELSE << >> ]
                   @@ Platforms(binary_present, listing)
        /\ accessed' = {}
        /\ UNCHANGED <<binary_present, store, jobs>>

InfoNext ==
    \/ status
    \/ get_platforms
    \/ BinaryChanges

\* The service answering status and platform requests only.
InfoSpec == Init /\ [][InfoNext]_vars

(* ------------------------------- claims ------------------------------- *)

Threads == BagToSet(jobs)

Terminated(job) == job.pc \in {"done", "dead"}

TerminalStatuses == {"completed", "failed", "timeout"}

\* The file at `path` holds a complete Job Record.
HasRecord(path) == Exists(path) /\ JsonLoads(store[path])

ScanOps == {"scan_username", "scan_email"}

\* The subject field is absent or empty, as the specification defines an
\* invalid submission.
SubjectAbsentOrEmpty(body) ==
    \/ body.type = "none"
    \/ ~body.has
    \/ body.value = << >>

\* C1 (as claimed): every accepted submission ends with a Job Record of
\* status completed, failed or timeout under its scan_id, and polling that
\* scan_id then returns 200.  Stated on the final result: once every runner
\* thread has ended, each job has its record and its poll answers 200.
C1_AcceptedJobGetsRecord ==
    (\A job \in Threads : Terminated(job)) =>
        \A job \in Threads :
            /\ HasRecord(job.output_file)
            /\ JsonLoad(store[job.output_file]).status \in TerminalStatuses
            /\ GetResults(job.scan_id, store).code = 200

C4_EmptySubjectRejected ==
    [][ \A kind \in Kinds, body \in Bodies, parsed \in {"None", "raise", "dict"},
           hex \in Suffixes :
          (Scan(kind, body, parsed, hex) /\ SubjectAbsentOrEmpty(body))
          => /\ last'.code = 400
             /\ jobs' = jobs
             /\ store' = store ]_vars

\* C5: a runner whose subprocess returned normally writes a record whose
\* return_code is the exit code and whose status is 'completed' iff the exit
\* code is zero, 'failed' otherwise.
C5_StatusFollowsExitCode ==
    [][ \A job \in Threads :
          (RunnerDump(job) /\ job.outcome.type = "exit")
          => LET record == JsonLoad(store'[job.output_file]) IN
             /\ record.return_code = job.outcome.rc
             /\ (record.status = "completed") <=> (job.outcome.rc = 0)
             /\ (record.status = "failed") <=> (job.outcome.rc # 0) ]_vars

\* C5 witness: a job whose process exited non-zero has written a record of
\* status 'failed'.
C5_WitnessNonZeroExitRecorded ==
    \E job \in Threads :
        /\ job.pc = "done"
        /\ job.outcome.type = "exit"
        /\ job.outcome.rc # 0
        /\ accessed = {job.output_file}
        /\ HasRecord(job.output_file)
        /\ JsonLoad(store[job.output_file]).status = "failed"

\* C6: a runner whose subprocess timed out writes a record of status
\* 'timeout' that has no stdout, stderr or return_code field.
C6_TimeoutRecord ==
    [][ \A job \in Threads :
          (RunnerDump(job) /\ job.outcome.type = "timeout")
          => LET record == JsonLoad(store'[job.output_file]) IN
             /\ record.status = "timeout"
             /\ DOMAIN record \cap {"stdout", "stderr", "return_code"} = {} ]_vars

\* C6 witness: a job that timed out has written its record.
C6_WitnessTimeoutRecorded ==
    \E job \in Threads :
        /\ job.pc = "done"
        /\ job.outcome.type = "timeout"
        /\ accessed = {job.output_file}
        /\ HasRecord(job.output_file)
        /\ JsonLoad(store[job.output_file]).status = "timeout"

\* C7 (as claimed): every identifier issued with a 202 holds no '/' and no
\* '..', and get_results never answers it with 400 'Invalid scan ID'.
C7_IssuedIdIsSafe ==
    (last.op \in ScanOps /\ last.code = 202)
    => /\ ~Contains(last.scan_id, Slash)
       /\ ~Contains(last.scan_id, DotDot)
       /\ GetResults(last.scan_id, store).code # 400

\* C8 (as claimed): every path a runner or get_results passes to
\* os.path.exists / open names a file directly inside DATA_DIR.
C8_AccessesStayInDataDir ==
    \A path \in accessed : ~Contains(path, Slash)

\* C9 (as claimed): with the binary absent a submission starts no runner,
\* and it is answered 400 when its subject is absent or empty, 500 otherwise.
C9_MissingBinarySynchronous ==
    [][ \A kind \in Kinds, body \in Bodies, parsed \in {"None", "raise", "dict"},
           hex \in Suffixes :
          (Scan(kind, body, parsed, hex) /\ ~binary_present)
          => /\ jobs' = jobs
             /\ store' = store
             /\ last'.code = IF SubjectAbsentOrEmpty(body) THEN 400 ELSE 500 ]_vars

\* The runner threads that write to `path`.
WritersOf(path) == { job \in Threads : job.output_file = path }

\* C10 (as claimed): once a record exists its contents never change.
C10_RecordNeverChanges ==
    [][ \A path \in DOMAIN store :
          HasRecord(path) => store'[path] = store[path] ]_vars

\* C10 (amended): a record that exists changes only when a second accepted
\* submission was issued the same identifier: while an identifier belongs to
\* one submission, its record, once written, stays as it is.
C10_RecordChangesOnlyOnCollision ==
    [][ \A path \in DOMAIN store :
          (HasRecord(path) /\ store'[path] # store[path])
          => CopiesIn(CHOOSE job \in WritersOf(path) : TRUE, jobs) >= 2
             \/ Cardinality(WritersOf(path)) >= 2 ]_vars

\* C10 witness: get_results answered 200 for an identifier issued once,
\* while another runner is still at work.
C10_WitnessPolledRecordOfSingleJob ==
    /\ last.op = "get_results"
    /\ last.code = 200
    /\ BagCardinality(jobs) = 2
    /\ \E job \in Threads : job.scan_id # last.scan_id /\ job.pc = "running"

\* C11 (as claimed): get_results answers 200, with outer status 'completed',
\* only when every runner started for the identifier has reached its
\* terminal outcome, and no record exists for a job whose subprocess is
\* still running.
C11_RecordOnlyAfterRunnerEnded ==
    /\ (last.op = "get_results" /\ last.code = 200)
       => /\ last.status = "completed"
          /\ \A job \in Threads : job.scan_id = last.scan_id => job.pc = "done"
    /\ \A job \in Threads : job.pc = "running" => ~HasRecord(job.output_file)

\* C11 (amended): get_results answers 200, with outer status 'completed'
\* whatever the record's own status, only when a runner started for the
\* identifier has written its record and ended; a record exists only for an
\* identifier one of whose runners has ended (another submission issued
\* the same identifier may still be running).
C11_RecordOnlyAfterSomeRunnerEnded ==
    /\ (last.op = "get_results" /\ last.code = 200)
       => /\ last.status = "completed"
          /\ last.results.status \in TerminalStatuses
          /\ \E job \in Threads : job.scan_id = last.scan_id /\ job.pc = "done"
    /\ \A path \in DOMAIN store :
          HasRecord(path) => \E job \in WritersOf(path) : job.pc = "done"

\* C11 witness: a poll was answered 200 'completed' for a record whose own
\* status is 'failed'.
C11_WitnessCompletedOuterFailedInner ==
    /\ last.op = "get_results"
    /\ last.code = 200
    /\ last.status = "completed"
    /\ last.results.status = "failed"

C14_PollNeverSeesPartialWrite ==
    ( /\ last.op = "get_results"
      /\ ~Contains(last.scan_id, DotDot)
      /\ ~Contains(last.scan_id, Slash) )
    => /\ last.code \in {200, 202}
       /\ last.code = 200 => last.results.status \in TerminalStatuses

\* Calls of subprocess.run a runner has made: the ones that have ended
\* (job.runs) and the one it is in.
Invocations(job) == job.runs + (IF job.pc = "running" THEN 1 ELSE 0)

\* C15: the runner of an accepted submission invokes the binary at most
\* once, and a runner that has an outcome (exit, timeout or exception) is
\* never in subprocess.run again.
C15_RunnerIsSingleShot ==
    \A job \in Threads :
        /\ Invocations(job) <= 1
        /\ job.outcome # NotRun => job.pc # "running" /\ job.runs = 1

\* C15 witness: a runner whose scan timed out has written its record and
\* ended after its single invocation.
C15_WitnessTimedOutRunnerEnded ==
    \E job \in Threads :
        /\ job.pc = "done"
        /\ job.outcome.type = "timeout"
        /\ job.runs = 1

\* Subjects that hold the identifier's separator, a suffix value or a
\* kind name: the subjects that could make two identifiers coincide.
SeparatorSubjects ==
    { <<"_">>, <<"0">>, <<"_", "0">>, <<"a", "_", "0">>, <<"a", "_", "f">>,
      <<"e", "m", "a", "i", "l">>, <<"e", "m", "a", "i", "l", "_", "a">> }

HealthyReport(response) ==
    /\ response.code = 200
    /\ response.status = "online"
    /\ response.blackbird_available
    /\ response.blackbird_version \notin {UnknownBuildRequired, UnknownVersion}

C18_PlatformsNeverAnError ==
    last.op = "get_platforms"
    => /\ last.code = 200
       /\ (last.invoked = << >> \/ last.invoked[1].type # "exit"
             \/ last.invoked[1].rc # 0)
          => (last.platforms = FallbackPlatforms /\ last.count = 0)
       /\ (last.invoked # << >> /\ last.invoked[1].type = "exit"
             /\ last.invoked[1].rc = 0)
          => /\ last.count = Len(last.platforms)
             /\ last.platforms = Split(Strip(last.invoked[1].stdout))

====
